---------------------------- MODULE Spec2Model ----------------------------
(***************************************************************************)
(* A model of galo-parse-meta: the nom parsers of the metadata grammar     *)
(* (space, paragraph, author, abstract, metadata) and the renderers        *)
(* (Abstract::write_to, Metadata::wtite_to).                               *)
(*                                                                         *)
(* Byte slices (&[u8]) are TLA+ strings; a parser is an operator from the  *)
(* input slice to an IResult, the record [ok, rest, val].                  *)
(***************************************************************************)
EXTENDS Integers, Sequences, FiniteSets, TLC

VARIABLES
    pc,        \* position of the operation under way
    testcase,  \* the pieces the input buffer was assembled from
    input,     \* the byte slice handed to the parser (metadata(): the unconsumed rest)
    result,    \* the IResult the parser returned
    metadata,  \* the Metadata record
    bib,       \* the bibliography map: citation key -> tags
    date,      \* the timestamp handed to wtite_to, formatted with "%+"
    sink,      \* the bytes written to the output sink so far
    status     \* the io::Result of the render: "none", "running", "ok", "error", "panic"

vars == <<pc, testcase, input, result, metadata, bib, date, sink, status>>

(***************************************************************************)
(* Bounds of the model.                                                    *)
(***************************************************************************)
MaxTokens == 4      \* tokens an input of paragraph() is assembled from

MaxPad == 1         \* whitespace bytes of one padding of an author entry

MaxAbstractTokens == 4   \* tokens an input of abstract() is assembled from

MaxFields == 2      \* closed fields (or stray \par markers) of a document

MaxPieces == 3      \* pieces the source of a rendered abstract is assembled from

FillLen == 140      \* bytes of the long text piece of a rendered abstract

(***************************************************************************)
(* Byte-slice helpers.                                                     *)
(***************************************************************************)
Take(s, n) == SubSeq(s, 1, n)

Drop(s, n) == SubSeq(s, n + 1, Len(s))

StartsWith(s, t) == Len(s) >= Len(t) /\ Take(s, Len(t)) = t

IsSuffix(t, s) == Len(t) <= Len(s) /\ Drop(s, Len(s) - Len(t)) = t

\* the first of two search results (0: nothing found)
OrElse(found, other) == IF found # 0 THEN found ELSE other

\* first index in lo..hi (1-based) at which t occurs in s, 0 when there is
\* none; the range is halved so that long slices do not nest deeply
RECURSIVE FindFrom(_, _, _, _)
FindFrom(s, t, lo, hi) ==
    IF lo > hi THEN 0
    ELSE IF lo = hi THEN (IF SubSeq(s, lo, lo + Len(t) - 1) = t THEN lo ELSE 0)
    ELSE OrElse(FindFrom(s, t, lo, (lo + hi) \div 2),
                FindFrom(s, t, (lo + hi) \div 2 + 1, hi))

Find(s, t) == FindFrom(s, t, 1, Len(s) - Len(t) + 1)

Contains(s, t) == Find(s, t) > 0

\* first index in lo..hi at which the byte of s lies in set (member = TRUE)
\* or outside it (member = FALSE), 0 when there is none
RECURSIVE FirstByte(_, _, _, _, _)
FirstByte(s, set, member, lo, hi) ==
    IF lo > hi THEN 0
    ELSE IF lo = hi THEN (IF (SubSeq(s, lo, lo) \in set) = member THEN lo ELSE 0)
    ELSE OrElse(FirstByte(s, set, member, lo, (lo + hi) \div 2),
                FirstByte(s, set, member, (lo + hi) \div 2 + 1, hi))

SpanUpTo(s, at) == IF at = 0 THEN Len(s) ELSE at - 1

\* length of the longest run of bytes outside stop that follows the first n
\* bytes of s, counted from the start of s
SpanNot(s, stop, n) == SpanUpTo(s, FirstByte(s, stop, TRUE, n + 1, Len(s)))

\* all concatenations of at most n tokens
RECURSIVE Concats(_, _)
Concats(tokens, n) ==
    IF n = 0 THEN {""}
    ELSE LET shorter == Concats(tokens, n - 1)
         IN  shorter \cup {s \o t : s \in shorter, t \in tokens}

NoResult == [ok |-> FALSE, rest |-> "", val |-> ""]

Failure(kind, at) == [ok |-> FALSE, rest |-> at, val |-> kind]

Success(rest, val) == [ok |-> TRUE, rest |-> rest, val |-> val]

(***************************************************************************)
(* space.rs                                                                *)
(***************************************************************************)
WhiteSpace == {" ", "\t", "\r", "\n"}

SpanIn(s, set, n) == SpanUpTo(s, FirstByte(s, set, FALSE, n + 1, Len(s)))

\* space(): take_while(space|tab|CR|LF); returns the unconsumed rest, never fails
space(i) == Drop(i, SpanIn(i, WhiteSpace, 0))

(***************************************************************************)
(* paragraph.rs                                                            *)
(***************************************************************************)
ParTag == "\\par"

\* paragraph(): skip space, take_until("\par"), drop the 4 terminator bytes;
\* without a terminator the whole rest is the value
paragraph_short(i) ==
    LET s  == space(i)
        at == Find(s, ParTag)
    IN  IF at > 0 THEN Success(Drop(s, at - 1 + 3), Take(s, at - 1))
        ELSE Success("", s)

paragraph(i) ==
    LET s  == space(i)
        at == Find(s, ParTag)
    IN  IF at > 0 THEN Success(Drop(s, at - 1 + 4), Take(s, at - 1))
        ELSE Success("", s)

(***************************************************************************)
(* Specification of paragraph(): any input assembled from the tokens.      *)
(***************************************************************************)
ParagraphTokens == {" ", "\t", "\n", "x", "25", "\\par", "\\", "\\pa", "r"}

Idle ==
    /\ testcase = <<>>
    /\ result = NoResult
    /\ metadata = <<>>
    /\ bib = <<>>
    /\ date = ""
    /\ sink = ""
    /\ status = "none"

InitParagraph ==
    /\ pc = "call"
    /\ input \in Concats(ParagraphTokens, MaxTokens)
    /\ Idle

CallParagraph ==
    /\ pc = "call"
    /\ result' = paragraph(input)
    /\ pc' = "done"
    /\ UNCHANGED <<testcase, input, metadata, bib, date, sink, status>>

NextParagraph == CallParagraph

SpecParagraph == InitParagraph /\ [][NextParagraph]_vars


(* C9: paragraph() never fails; after the leading whitespace run the value *)
(* is the bytes before the first \par and the remainder the bytes after    *)
(* its 4 bytes, or the whole rest and an empty remainder without a \par.   *)
ParagraphContract ==
    pc = "done" =>
        /\ result.ok
        /\ \E k \in 0..Len(input) :
             /\ \A j \in 1..k : SubSeq(input, j, j) \in WhiteSpace
             /\ k < Len(input) => SubSeq(input, k + 1, k + 1) \notin WhiteSpace
             /\ LET s == SubSeq(input, k + 1, Len(input))
                    occurs(t) == \E at \in 1..(Len(t) - 3) : SubSeq(t, at, at + 3) = "\\par"
                IN  IF occurs(s)
                    THEN /\ s = result.val \o "\\par" \o result.rest
                         /\ ~ occurs(SubSeq(s, 1, Len(result.val) + 3))
                    ELSE result.val = s /\ result.rest = ""

ParagraphSplitsAtPar ==
    /\ pc = "done"
    /\ input # ""
    /\ Head(input) \in WhiteSpace
    /\ result.val # ""
    /\ result.rest # ""
    /\ input # result.val \o "\\par" \o result.rest

(***************************************************************************)
(* author.rs                                                               *)
(***************************************************************************)
NameStop == {",", ".", "\\"}

\* name(): is_not(",.\"), which fails on an empty run, then one trailing
\* ',' or '.' is skipped when present
name_keep_delim(i) ==
    LET n == SpanNot(i, NameStop, 0)
    IN  IF n = 0 THEN Failure("IsNot", i)
        ELSE Success(Drop(i, n), Take(i, n))

name(i) ==
    LET n    == SpanNot(i, NameStop, 0)
        rest == Drop(i, n)
    IN  IF n = 0 THEN Failure("IsNot", i)
        ELSE IF rest # "" /\ Head(rest) \in {",", "."}
             THEN Success(Tail(rest), Take(i, n))
             ELSE Success(rest, Take(i, n))

\* separator(): space, char('>') (complete), space
separator(i) ==
    LET s == space(i)
    IN  IF s # "" /\ Head(s) = ">" THEN Success(space(Tail(s)), "")
        ELSE Failure("Char", s)

\* author_part(): space, then separated_pair(alt(given, family), separator, name)
author_part(i) ==
    LET s   == space(i)
        key == IF StartsWith(s, "given") THEN "given"
               ELSE IF StartsWith(s, "family") THEN "family"
               ELSE ""
    IN  IF key = "" THEN Failure("Tag", s)
        ELSE LET sep == separator(Drop(s, Len(key)))
             IN  IF ~ sep.ok THEN sep
                 ELSE LET nm == name(sep.rest)
                      IN  IF ~ nm.ok THEN nm
                          ELSE Success(nm.rest, [key |-> key, value |-> nm.val])

\* author(): two author_parts, one Given and one Family in either order
author_match(i, p1, p2) ==
    IF ~ p2.ok THEN p2
    ELSE IF p1.val.key = "family" /\ p2.val.key = "given"
         THEN Success(p2.rest, [given |-> p2.val.value, family |-> p1.val.value])
    ELSE IF p1.val.key = "given" /\ p2.val.key = "family"
         THEN Success(p2.rest, [given |-> p1.val.value, family |-> p2.val.value])
    ELSE Failure("Satisfy", i)

author_second(i, p1) ==
    IF ~ p1.ok THEN p1 ELSE author_match(i, p1, author_part(p1.rest))

author(i) == author_second(i, author_part(i))

(***************************************************************************)
(* Specification of author(): an entry of two labelled parts, assembled    *)
(* from its labels, names, paddings and terminators.                       *)
(***************************************************************************)
Pads == Concats({" ", "\n"}, MaxPad)

Labels == {"given", "family"}

AuthorCases ==
    [l1 : Labels, l2 : Labels,
     given : {"A", "Fulano de"}, family : {"B", "Tal"},
     lead : Pads, sep : Pads, trail : Pads,
     t1 : {",", ".", ""}, t2 : {",", ".", "", "\\par"}]

NameOf(c, label) == IF label = "given" THEN c.given ELSE c.family

AuthorPartText(c, label, term) ==
    c.lead \o label \o c.sep \o ">" \o c.sep \o NameOf(c, label) \o c.trail \o term

AuthorText(c) == AuthorPartText(c, c.l1, c.t1) \o AuthorPartText(c, c.l2, c.t2)

InitAuthor ==
    /\ pc = "call"
    /\ testcase \in AuthorCases
    /\ input = AuthorText(testcase)
    /\ result = NoResult
    /\ metadata = <<>>
    /\ bib = <<>>
    /\ date = ""
    /\ sink = ""
    /\ status = "none"

CallAuthor ==
    /\ pc = "call"
    /\ result' = author(input)
    /\ pc' = "done"
    /\ UNCHANGED <<testcase, input, metadata, bib, date, sink, status>>

NextAuthor == CallAuthor

SpecAuthor == InitAuthor /\ [][NextAuthor]_vars

ExpectedAuthor == [given |-> testcase.given, family |-> testcase.family]

(* C6 as stated: given>X,family>Y and family>Y,given>X parse to the same   *)
(* Author {given: X, family: Y} under every padding and every terminator   *)
(* (',', '.', or none) of each part.                                       *)
AuthorOrderFreeAnyLayout ==
    (pc = "done" /\ testcase.l1 # testcase.l2) =>
        (result.ok /\ result.val = ExpectedAuthor)

(* C6 amended: the same, for paddings before the labels and around '>'     *)
(* only (nothing between a name and its terminator), the first part ended  *)
(* by ',' or '.', the second by ',', '.', end of input or a following \par.*)
AuthorOrderFree ==
    (pc = "done" /\ testcase.l1 # testcase.l2
                 /\ testcase.trail = "" /\ testcase.t1 # "") =>
        (result.ok /\ result.val = ExpectedAuthor)

AuthorFamilyFirstPadded ==
    /\ pc = "done"
    /\ testcase.l1 = "family" /\ testcase.l2 = "given"
    /\ testcase.lead # "" /\ testcase.sep # ""
    /\ testcase.trail = "" /\ testcase.t1 = "." /\ testcase.t2 = "\\par"
    /\ result.ok
    /\ result.val = [given |-> "Fulano de", family |-> "Tal"]
    /\ result.rest = "\\par"

(***************************************************************************)
(* abstract.rs: the parser                                                 *)
(***************************************************************************)
Part(kind, arg) == [kind |-> kind, arg |-> arg]

\* block(): alt(delimited('{', is_not("}"), '}'), is_not(" \t\r\n")); is_not
\* fails on an empty run and alt then tries the unbraced form on the same input
braced_empty_ok(i) ==
    IF i = "" \/ Head(i) # "{" THEN Failure("Char", i)
    ELSE LET n    == SpanNot(Tail(i), {"}"}, 0)
             rest == Drop(Tail(i), n)
         IN  IF rest = "" \/ Head(rest) # "}" THEN Failure("Char", rest)
             ELSE Success(Tail(rest), Take(Tail(i), n))

braced(i) ==
    IF i = "" \/ Head(i) # "{" THEN Failure("Char", i)
    ELSE LET n    == SpanNot(Tail(i), {"}"}, 0)
             rest == Drop(Tail(i), n)
         IN  IF n = 0 THEN Failure("IsNot", Tail(i))
             ELSE IF rest = "" \/ Head(rest) # "}" THEN Failure("Char", rest)
             ELSE Success(Tail(rest), Take(Tail(i), n))

not_braced(i) ==
    LET n == SpanNot(i, WhiteSpace, 0)
    IN  IF n = 0 THEN Failure("IsNot", i)
        ELSE Success(Drop(i, n), Take(i, n))

block(i) ==
    LET b == braced(i)
    IN  IF b.ok THEN b ELSE not_braced(i)

\* command(): space, '\', alt(textit, citeyear, cite), space, block
command(i) ==
    LET s == space(i)
    IN  IF ~ StartsWith(s, "\\") THEN Failure("Tag", s)
        ELSE LET t    == Tail(s)
                 kind == IF StartsWith(t, "textit") THEN "textit"
                         ELSE IF StartsWith(t, "citeyear") THEN "citeyear"
                         ELSE IF StartsWith(t, "cite") THEN "cite"
                         ELSE ""
             IN  IF kind = "" THEN Failure("Tag", t)
                 ELSE LET arg == block(space(Drop(t, Len(kind))))
                      IN  IF ~ arg.ok THEN arg
                          ELSE Success(arg.rest,
                                       Part(CASE kind = "textit"   -> "Textit"
                                              [] kind = "citeyear" -> "Citeyear"
                                              [] kind = "cite"     -> "Cite",
                                            arg.val))

\* text(): is_not("\"), a non-empty run of bytes other than the escape
text_one_byte(i) ==
    IF i = "" \/ Head(i) = "\\" THEN Failure("IsNot", i)
    ELSE Success(Tail(i), Part("Text", Take(i, 1)))

text(i) ==
    LET n == SpanNot(i, {"\\"}, 0)
    IN  IF n = 0 THEN Failure("IsNot", i)
        ELSE Success(Drop(i, n), Part("Text", Take(i, n)))

\* abstract(): many0(alt(text, command)); the loop ends, without error, at the
\* first input on which neither alternative matches
RECURSIVE many0_part(_, _)
many0_next_fail(i, parts, p) ==
    IF p.ok THEN many0_part(p.rest, Append(parts, p.val))
    ELSE IF i = "" THEN Success(i, parts)
    ELSE p

many0_next(i, parts, p) ==
    IF p.ok THEN many0_part(p.rest, Append(parts, p.val))
    ELSE Success(i, parts)

\* alt((text, command)): command is tried only where text fails
text_or_command(i, t) == IF t.ok THEN t ELSE command(i)

many0_part(i, parts) == many0_next(i, parts, text_or_command(i, text(i)))

abstract(i) == many0_part(i, <<>>)

(***************************************************************************)
(* abstract.rs: Abstract::write_to                                         *)
(***************************************************************************)
LowerCase == "abcdefghijklmnopqrstuvwxyz"

UpperCase == "ABCDEFGHIJKLMNOPQRSTUVWXYZ"

to_uppercase_byte(c) ==
    IF \E k \in 1..Len(LowerCase) : SubSeq(LowerCase, k, k) = c
    THEN LET k == CHOOSE k \in 1..Len(LowerCase) : SubSeq(LowerCase, k, k) = c
         IN  SubSeq(UpperCase, k, k)
    ELSE c

RECURSIVE to_uppercase(_)
to_uppercase(s) ==
    IF s = "" THEN "" ELSE to_uppercase_byte(Head(s)) \o to_uppercase(Tail(s))

RECURSIVE trim_end(_)
trim_end(s) ==
    IF s # "" /\ SubSeq(s, Len(s), Len(s)) \in WhiteSpace
    THEN trim_end(Take(s, Len(s) - 1))
    ELSE s

trim(s) == trim_end(space(s))

\* str::split(sep): the pieces between the occurrences of sep, at least one
RECURSIVE split(_, _)
split(s, sep) ==
    LET at == Find(s, sep)
    IN  IF at = 0 THEN <<s>>
        ELSE <<Take(s, at - 1)>> \o split(Drop(s, at - 1 + Len(sep)), sep)

RECURSIVE join(_, _)
join(pieces, sep) ==
    IF Len(pieces) = 0 THEN ""
    ELSE IF Len(pieces) = 1 THEN pieces[1]
    ELSE pieces[1] \o sep \o join(Tail(pieces), sep)

\* tags().iter().find_map(name): the value of the first tag of that name
RECURSIVE find_tag(_, _)
find_tag(tags, tagname) ==
    IF Len(tags) = 0 THEN <<>>
    ELSE IF tags[1][1] = tagname THEN <<tags[1][2]>>
    ELSE find_tag(Tail(tags), tagname)

NoYear == "_s.d._"

year_of(tags) ==
    LET y == find_tag(tags, "year")
    IN  IF y = <<>> THEN NoYear ELSE y[1]

\* the surnames of an author tag: split on " AND ", each cut at its first ','
surnames(v) ==
    LET names == split(v, " AND ")
    IN  [k \in 1..Len(names) |-> split(names[k], ",")[1]]

\* the author string of a cite; "panic" marks the out-of-bounds index s[1]
\* taken when the author tag holds a single name
author_of(tags) ==
    LET a == find_tag(tags, "author")
        t == find_tag(tags, "title")
    IN  IF a # <<>>
        THEN LET s == surnames(a[1])
             IN  IF Len(s) > 3 THEN [panic |-> FALSE, text |-> s[1] \o ", _et al._"]
                 ELSE IF Len(s) > 1 THEN [panic |-> FALSE, text |-> join(s, "; ")]
                 ELSE [panic |-> TRUE, text |-> ""]
        ELSE IF t # <<>> THEN [panic |-> FALSE, text |-> split(t[1], " ")[1]]
        ELSE [panic |-> FALSE, text |-> ""]

\* Format::italic
italic(format, txt) ==
    IF format = "Markdown" THEN "_" \o txt \o "_" ELSE txt

HasKey(b, key) == key \in DOMAIN b

\* one part written: the bytes it adds and how the write ends
write_part(part, b, format) ==
    CASE part.kind = "Text"   -> [out |-> part.arg, status |-> "ok"]
      [] part.kind = "Textit" -> [out |-> italic(format, part.arg), status |-> "ok"]
      [] part.kind = "Citeyear" ->
            IF ~ HasKey(b, part.arg) THEN [out |-> "", status |-> "error"]
            ELSE [out |-> "(" \o year_of(b[part.arg]) \o ")", status |-> "ok"]
      [] part.kind = "Cite" ->
            IF ~ HasKey(b, part.arg) THEN [out |-> "", status |-> "error"]
            ELSE LET a == author_of(b[part.arg])
                 IN  IF a.panic THEN [out |-> "", status |-> "panic"]
                     ELSE [out |-> "(" \o to_uppercase(trim(a.text)) \o ", "
                                       \o trim(year_of(b[part.arg])) \o ")",
                           status |-> "ok"]

\* Abstract::write_to: the parts in order, stopping at the first that fails
RECURSIVE write_parts(_, _, _, _)
write_parts(parts, b, format, out) ==
    IF Len(parts) = 0 THEN [out |-> out, status |-> "ok"]
    ELSE LET w == write_part(parts[1], b, format)
         IN  IF w.status # "ok" THEN [out |-> out, status |-> w.status]
             ELSE write_parts(Tail(parts), b, format, out \o w.out)

write_to(parts, b, format) == write_parts(parts, b, format, "")

(***************************************************************************)
(* Bibliography entries (the tags of a nom_bibtex Bibliography, in order). *)
(***************************************************************************)
Tag(tagname, value) == <<tagname, value>>

EntrySmith    == <<Tag("author", "Smith"), Tag("year", "1999")>>

EntryBakhtin  == <<Tag("author", "Bakhtin, M."), Tag("title", "Estetica da criacao verbal"),
                   Tag("year", "2003")>>

EntryTwo      == <<Tag("author", "Meneses, M. P. AND Santos, B. S."),
                   Tag("title", "Epistemologias do Sul"), Tag("year", "2009")>>

EntryTwoNoYear == <<Tag("title", "Epistemologias do Sul"),
                    Tag("author", "Meneses, M. P. AND Santos, B. S.")>>

EntryFour     == <<Tag("author", "Silva, G. AND Souza, J. AND Lima, C. AND Reis, D."),
                   Tag("year", "2017")>>

EntryFourNoYear == <<Tag("author", "Silva, G. AND Souza, J. AND Lima, C. AND Reis, D.")>>

EntryTitle    == <<Tag("title", "Os sertoes"), Tag("year", "1902")>>

EntryBare     == <<Tag("publisher", "Cortez")>>

NoBib == <<>>

BibOf(key, entry) == [k \in {key} |-> entry]

(***************************************************************************)
(* Specification of abstract(): any input assembled from the tokens is     *)
(* parsed, then written in plain-text mode.                                *)
(***************************************************************************)
AbstractTokens ==
    {"a", " ", "K", "{", "}", "\\", "\\textit", "\\citeyear", "\\cite", "\\par"}

InitAbstract ==
    /\ pc = "call"
    /\ input \in Concats(AbstractTokens, MaxAbstractTokens)
    /\ bib = BibOf("K", EntryTwo)
    /\ testcase = <<>>
    /\ result = NoResult
    /\ metadata = <<>>
    /\ date = ""
    /\ sink = ""
    /\ status = "none"

CallAbstract ==
    /\ pc = "call"
    /\ result' = abstract(input)
    /\ pc' = "parsed"
    /\ UNCHANGED <<testcase, input, metadata, bib, date, sink, status>>

\* Abstract::write_to(&mut sink, bib, Format::PlainText) on the parsed parts
WritePlain ==
    /\ pc = "parsed"
    /\ result.ok
    /\ LET w == write_to(result.val, bib, "PlainText")
       IN  sink' = sink \o w.out /\ status' = w.status
    /\ pc' = "done"
    /\ UNCHANGED <<testcase, input, result, metadata, bib, date>>

NextAbstract == CallAbstract \/ WritePlain

SpecAbstract == InitAbstract /\ [][NextAbstract]_vars

NoEscape(s) == Find(s, "\\") = 0

(* C7 as stated: every input without the escape byte, the empty one too,   *)
(* parses to exactly one Text part equal to the input with an empty        *)
(* remainder, and is written in plain-text mode as exactly the input.      *)
PlainRoundTripAlsoEmpty ==
    (pc = "done" /\ NoEscape(input)) =>
        /\ result.ok /\ result.rest = ""
        /\ result.val = <<Part("Text", input)>>
        /\ status = "ok" /\ sink = input

(* C7 amended: every non-empty input without the escape byte parses to     *)
(* exactly one Text part equal to the input, the empty input to an empty   *)
(* part list; both leave an empty remainder and are written in plain-text  *)
(* mode as exactly the input.                                              *)
PlainRoundTrip ==
    (pc = "done" /\ NoEscape(input)) =>
        /\ result.ok /\ result.rest = ""
        /\ result.val = IF input = "" THEN <<>> ELSE <<Part("Text", input)>>
        /\ status = "ok" /\ sink = input

PlainRoundTripOfText ==
    /\ pc = "done"
    /\ NoEscape(input) /\ Len(input) >= 3
    /\ result.val = <<Part("Text", input)>>
    /\ sink = input

CommandNames == {"\\textit", "\\citeyear", "\\cite"}

\* the input is a command name, optional whitespace, and an argument that
\* opens with '{'
BraceAfterCommand(c, sp) == StartsWith(input, c \o sp \o "{")

\* the bytes after that '{'
AfterBrace(c, sp) == Drop(input, Len(c) + Len(sp) + 1)

Consumed == Take(input, Len(input) - Len(result.rest))

(* C17: abstract() never returns an error; it stops at the first escape    *)
(* byte that does not start a command with an argument and returns the     *)
(* remainder from that byte on, with the parts of the bytes before it, in  *)
(* source order.                                                           *)
AbstractStopsAtEscape ==
    pc = "parsed" =>
        /\ result.ok
        /\ IsSuffix(result.rest, input)
        /\ result.rest # "" => (Head(result.rest) = "\\" /\ ~ command(result.rest).ok)
        /\ abstract(Consumed) = Success("", result.val)

AbstractStopsAtPar ==
    /\ pc = "parsed"
    /\ input = "\\citeK \\par"
    /\ result.ok
    /\ result.val = <<Part("Cite", "K"), Part("Text", " ")>>
    /\ result.rest = "\\par"

(* C19: in the part list of abstract() every Text part is non-empty and    *)
(* without escape byte, no two Text parts are adjacent, every command part *)
(* has a non-empty argument; the remainder is empty or begins with the     *)
(* escape byte.                                                            *)
PartListShape ==
    pc = "parsed" =>
        /\ \A n \in 1..Len(result.val) :
              /\ result.val[n].kind \in {"Text", "Textit", "Citeyear", "Cite"}
              /\ result.val[n].arg # ""
              /\ result.val[n].kind = "Text" => NoEscape(result.val[n].arg)
        /\ \A n \in 1..(Len(result.val) - 1) :
              ~ (result.val[n].kind = "Text" /\ result.val[n + 1].kind = "Text")
        /\ result.rest = "" \/ Head(result.rest) = "\\"

SpaceBetweenCommandsIsText ==
    /\ pc = "parsed"
    /\ input = "\\textitK \\cite"
    /\ result.val = <<Part("Textit", "K"), Part("Text", " ")>>
    /\ result.rest = "\\cite"

(***************************************************************************)
(* Specification of the citation renderer: short abstracts with cite and   *)
(* citeyear commands, written in plain-text mode against entries with and  *)
(* without author, title and year tags.                                    *)
(***************************************************************************)
MaxCiteTokens == 2   \* tokens an abstract with citations is assembled from

CiteTokens == {"a", " ", "\\cite{K}", "\\citeyear{K}"}

EntryTitleTab  == <<Tag("title", "Os\tsertoes"), Tag("year", "1902")>>

EntryTitleLead == <<Tag("title", " Os sertoes"), Tag("year", "1902")>>

EntryYearOnly  == <<Tag("year", "1902")>>

CiteEntries ==
    {EntryTwo, EntryTwoNoYear, EntryFour, EntryTitle, EntryTitleTab, EntryTitleLead,
     EntryYearOnly, EntryBare}

InitCite ==
    /\ pc = "call"
    /\ input \in Concats(CiteTokens, MaxCiteTokens)
    /\ bib \in {BibOf("K", e) : e \in CiteEntries}
    /\ testcase = <<>>
    /\ result = NoResult
    /\ metadata = <<>>
    /\ date = ""
    /\ sink = ""
    /\ status = "none"

SpecCite == InitCite /\ [][NextAbstract]_vars

\* the first whitespace-delimited word of a text, "" when it has none
FirstWord(s) == Take(space(s), SpanNot(space(s), WhiteSpace, 0))

TagOr(tags, tagname, other) ==
    IF find_tag(tags, tagname) = <<>> THEN other ELSE find_tag(tags, tagname)[1]

(* C12: for an entry without author tag, cite writes as author the first   *)
(* whitespace-delimited word of the title, upper-cased, whatever the       *)
(* whitespace that delimits it and also when the title starts with         *)
(* whitespace; without author and title the author is empty and the        *)
(* citation is written as (, YEAR) without error.                          *)
TitleWordFallback ==
    (pc = "done" /\ input = "\\cite{K}" /\ find_tag(bib["K"], "author") = <<>>) =>
        /\ status = "ok"
        /\ sink = "(" \o to_uppercase(FirstWord(TagOr(bib["K"], "title", ""))) \o ", "
                      \o TagOr(bib["K"], "year", NoYear) \o ")"

(***************************************************************************)
(* metadata.rs: the parser                                                 *)
(***************************************************************************)
None == <<>>

Some(v) == <<v>>

IsSome(o) == o # None

\* Metadata::default()
DefaultMetadata ==
    [authors |-> None, title |-> None, first_page |-> None, last_page |-> None,
     abstract |-> None, keywords |-> None, section |-> None, number |-> None,
     semester |-> None, year |-> None]

\* the alternatives of `key`, in the order alt tries them
Keys == <<"authors", "title", "first_page", "last_page", "abstract", "keywords",
          "section", "number", "semester", "year", "\\par">>

\* key(): the first tag the input starts with, "" when none matches
RECURSIVE key_from(_, _)
key_from(i, k) ==
    IF k > Len(Keys) THEN ""
    ELSE IF StartsWith(i, Keys[k]) THEN Keys[k]
    ELSE key_from(i, k + 1)

key(i) == key_from(i, 1)

\* divisor(): space, char('=') (the streaming one: Incomplete at end of
\* input), space
divisor(i) ==
    LET s == space(i)
    IN  IF s = "" THEN Failure("Incomplete", s)
        ELSE IF Head(s) # "=" THEN Failure("Char", s)
        ELSE Success(space(Tail(s)), "")

\* many1(author): one author at least, then as many as parse
RECURSIVE many_author(_, _)
many_author_next(i, authors, a) ==
    IF a.ok THEN many_author(a.rest, Append(authors, a.val))
    ELSE Success(i, authors)

many_author(i, authors) == many_author_next(i, authors, author(i))

many1_first(i, a) ==
    IF a.ok THEN many_author(a.rest, <<a.val>>)
    ELSE Failure("Many1", i)

many1_author(i) == many1_first(i, author(i))

\* `let (inp, _) = paragraph(inp)?` after a parsed value: the value is kept,
\* the bytes up to and including the next \par are dropped
then_paragraph(r) ==
    IF ~ r.ok THEN r ELSE Success(paragraph(r.rest).rest, r.val)

\* the value parser of a keyword: many1(author) or abstract, each followed
\* by paragraph, or paragraph alone
field_value(k, i) ==
    IF k = "authors" THEN then_paragraph(many1_author(i))
    ELSE IF k = "abstract" THEN then_paragraph(abstract(i))
    ELSE paragraph(i)

\* divisor and value of keyword k, which the input inp starts with
after_key(k, d) == IF d.ok THEN field_value(k, d.rest) ELSE d

field(k, inp) == after_key(k, divisor(Drop(inp, Len(k))))

(***************************************************************************)
(* metadata(): one action per way an iteration of its loop can go.         *)
(***************************************************************************)
\* no keyword after the whitespace: break, returning the input as it was
\* before this iteration's space()
LoopBreak ==
    /\ pc = "loop"
    /\ key(space(input)) = ""
    /\ result' = Success(input, metadata)
    /\ pc' = "done"
    /\ UNCHANGED <<testcase, input, metadata, bib, date, sink, status>>

\* a stray \par marker: consumed, next iteration
LoopSkipPar ==
    /\ pc = "loop"
    /\ key(space(input)) = "\\par"
    /\ input' = Drop(space(input), 4)
    /\ UNCHANGED <<pc, testcase, result, metadata, bib, date, sink, status>>

\* a keyword, its divisor and its value: stored, next iteration
StoreField_keep_first(k, v) ==
    /\ k \notin {"", "\\par"}
    /\ v.ok
    /\ metadata' = IF IsSome(metadata[k]) THEN metadata
                   ELSE [metadata EXCEPT ![k] = Some(v.val)]
    /\ input' = v.rest

StoreField_keep_input(k, v) ==
    /\ k \notin {"", "\\par"}
    /\ v.ok
    /\ metadata' = [metadata EXCEPT ![k] = Some(v.val)]
    /\ UNCHANGED input

StoreField(k, v) ==
    /\ k \notin {"", "\\par"}
    /\ v.ok
    /\ metadata' = [metadata EXCEPT ![k] = Some(v.val)]
    /\ input' = v.rest

LoopField ==
    /\ pc = "loop"
    /\ StoreField(key(space(input)), field(key(space(input)), space(input)))
    /\ UNCHANGED <<pc, testcase, result, bib, date, sink, status>>

\* a keyword whose divisor or value does not parse: metadata() returns Err
ReturnErr(k, v) ==
    /\ k \notin {"", "\\par"}
    /\ ~ v.ok
    /\ result' = v

LoopFail ==
    /\ pc = "loop"
    /\ ReturnErr(key(space(input)), field(key(space(input)), space(input)))
    /\ pc' = "done"
    /\ UNCHANGED <<testcase, input, metadata, bib, date, sink, status>>

(***************************************************************************)
(* Specification of metadata(): documents assembled from fields, each      *)
(* closed by \par, stray \par markers, paddings and a tail (an unclosed    *)
(* last field, trailing whitespace); some hold a field that is not of the  *)
(* grammar.                                                                *)
(***************************************************************************)
Unit(txt, wf) == [text |-> txt, wellformed |-> wf]

DocUnits ==
    { Unit("authors=given>A,family>B\\par", TRUE),
      Unit("title = T\\par", TRUE),
      Unit("first_page=15\\par", TRUE),
      Unit("last_page=29\\par", TRUE),
      Unit("abstract=See \\cite{K}.\\par", TRUE),
      Unit("keywords=a. b.\\par", TRUE),
      Unit("section=S\\par", TRUE),
      Unit("number=5\\par", TRUE),
      Unit("semester=1\\par", TRUE),
      Unit("year=2022\\par", TRUE),
      Unit("\\par", TRUE),
      Unit("title T\\par", FALSE),
      Unit("authors=given>A,given>B\\par", FALSE) }

DocPads == {"", " \n"}

DocTails ==
    { Unit("", TRUE), Unit(" \n", TRUE), Unit("\t", TRUE),
      Unit(" year=2022", TRUE), Unit("abstract=a \\textit {b}", TRUE),
      Unit("title", FALSE) }

\* the documents of at most n of the units, with a padding or nothing
\* between them
RECURSIVE DocsFrom(_, _)
DocsFrom(units, n) ==
    IF n = 0 THEN {[text |-> "", wellformed |-> TRUE, units |-> <<>>]}
    ELSE LET shorter == DocsFrom(units, n - 1)
         IN  shorter \cup
             { [text |-> d.text \o p \o u.text,
                wellformed |-> d.wellformed /\ u.wellformed,
                units |-> Append(d.units, u.text)] :
                 d \in shorter, p \in DocPads, u \in units }

Docs(n) == DocsFrom(DocUnits, n)

InitMetadata ==
    /\ pc = "loop"
    /\ \E d \in Docs(MaxFields), t \in DocTails :
         /\ input = d.text \o t.text
         /\ testcase = [source |-> input, wellformed |-> d.wellformed /\ t.wellformed,
                         units |-> d.units, tail |-> t.text]
    /\ metadata = DefaultMetadata
    /\ result = NoResult
    /\ bib = <<>>
    /\ date = ""
    /\ sink = ""
    /\ status = "none"

NextMetadata == LoopBreak \/ LoopSkipPar \/ LoopField \/ LoopFail

SpecMetadata == InitMetadata /\ [][NextMetadata]_vars

(***************************************************************************)
(* Specification of metadata() on documents of fields: repeated keywords,  *)
(* author lists of several entries, abstracts with braced and unbraced     *)
(* command arguments.                                                      *)
(***************************************************************************)
FieldUnits ==
    { Unit("authors=given>A,family>B\\par", TRUE),
      Unit("title = T\\par", TRUE),
      Unit("title=U\\par", TRUE),
      Unit("abstract=See \\cite{K}.\\par", TRUE),
      Unit("abstract=\\cite K\\par", TRUE),
      Unit("year=2022\\par", TRUE),
      Unit("\\par", TRUE),
      Unit("authors=given>A,given>B\\par", FALSE),
      Unit("authors=given>A,family>B,given>C,given>D\\par", FALSE) }

FieldTails ==
    { Unit("", TRUE), Unit(" \n", TRUE), Unit(" year=2022", TRUE),
      Unit("abstract=a \\textit {b}", TRUE) }

InitFields ==
    /\ pc = "loop"
    /\ \E d \in DocsFrom(FieldUnits, MaxFields), t \in FieldTails :
         /\ input = d.text \o t.text
         /\ testcase = [source |-> input, wellformed |-> d.wellformed /\ t.wellformed,
                         units |-> d.units, tail |-> t.text]
    /\ metadata = DefaultMetadata
    /\ result = NoResult
    /\ bib = <<>>
    /\ date = ""
    /\ sink = ""
    /\ status = "none"

SpecFields == InitFields /\ [][NextMetadata]_vars

(* C8: on every well-formed document metadata() succeeds and returns an    *)
(* empty remainder, trailing whitespace after the final \par included.     *)
WellFormedLeavesNothing ==
    (pc = "done" /\ testcase.wellformed) => (result.ok /\ result.rest = "")

\* what a unit of the documents is in the grammar: the keyword of the field
\* and the value the field gives it, key "" for a unit that is not a field
\* of the grammar (a stray \par, a malformed field)
FieldOf(txt) ==
    CASE txt = "authors=given>A,family>B\\par" ->
            [key |-> "authors", val |-> <<[given |-> "A", family |-> "B"]>>]
      [] txt = "title = T\\par"     -> [key |-> "title", val |-> "T"]
      [] txt = "title=U\\par"       -> [key |-> "title", val |-> "U"]
      [] txt = "first_page=15\\par" -> [key |-> "first_page", val |-> "15"]
      [] txt = "last_page=29\\par"  -> [key |-> "last_page", val |-> "29"]
      [] txt = "abstract=See \\cite{K}.\\par" ->
            [key |-> "abstract",
             val |-> <<Part("Text", "See "), Part("Cite", "K"), Part("Text", ".")>>]
      [] txt = "abstract=\\cite K\\par" ->
            [key |-> "abstract", val |-> <<Part("Cite", "K\\par")>>]
      [] txt = "keywords=a. b.\\par" -> [key |-> "keywords", val |-> "a. b."]
      [] txt = "section=S\\par"     -> [key |-> "section", val |-> "S"]
      [] txt = "number=5\\par"      -> [key |-> "number", val |-> "5"]
      [] txt = "semester=1\\par"    -> [key |-> "semester", val |-> "1"]
      [] txt = "year=2022\\par"     -> [key |-> "year", val |-> "2022"]
      [] txt = " year=2022"         -> [key |-> "year", val |-> "2022"]
      [] txt = "abstract=a \\textit {b}" ->
            [key |-> "abstract", val |-> <<Part("Text", "a "), Part("Textit", "b")>>]
      [] OTHER -> [key |-> "", val |-> ""]

IsField(txt) == FieldOf(txt).key # ""

\* an abstract field whose last command has an unbraced argument that runs
\* into the closing \par of the field
SwallowsPar(txt) ==
    /\ FieldOf(txt).key = "abstract"
    /\ \E n \in 1..Len(FieldOf(txt).val) : Contains(FieldOf(txt).val[n].arg, "\\par")

\* a field closed by a \par that its value parser leaves to paragraph()
ClosedField(txt) == IsField(txt) /\ StartsWith(txt, FieldOf(txt).key) /\ ~ SwallowsPar(txt)

\* an authors field with an entry of two given parts
BadEntryFirst == "authors=given>A,given>B\\par"

BadEntryLater == "authors=given>A,family>B,given>C,given>D\\par"

\* the units before unit n are closed fields, so that metadata() reaches unit n
Reaches(n) == \A j \in 1..(n - 1) : ClosedField(testcase.units[j])

(* C11: an authors field with an author entry that is not one given and    *)
(* one family part, the first entry of the list or a later one, makes      *)
(* metadata() fail; no record is returned with that entry left out.        *)
MalformedAuthorEntryFails ==
    (pc = "done" /\ \E n \in 1..Len(testcase.units) :
                       /\ testcase.units[n] \in {BadEntryFirst, BadEntryLater}
                       /\ Reaches(n))
        => ~ result.ok

\* the record that holds, for each keyword, the value of the last field of
\* that keyword among the units: it does not depend on the order of fields
\* of distinct keywords
RECURSIVE Stored(_, _)
Stored(units, m) ==
    IF Len(units) = 0 THEN m
    ELSE Stored(Tail(units),
                IF IsField(units[1])
                THEN [m EXCEPT ![FieldOf(units[1]).key] = Some(FieldOf(units[1]).val)]
                ELSE m)

DistinctKeys(units) ==
    \A j, k \in 1..Len(units) : j # k => FieldOf(units[j]).key # FieldOf(units[k]).key

\* the text of a unit ends with the \par marker
EndsWithPar(txt) == Len(txt) >= 4 /\ Drop(txt, Len(txt) - 4) = "\\par"

\* a document of fields only, in some order, with whitespace or nothing
\* between them and nothing after the last
FieldsOnly ==
    /\ testcase.tail = ""
    /\ \A n \in 1..Len(testcase.units) :
           IsField(testcase.units[n]) /\ EndsWithPar(testcase.units[n])

(* C13 as stated: for fields of distinct keywords, each ending with \par,  *)
(* in any order and with any whitespace between them, metadata() returns   *)
(* the record of their values and an empty remainder.                      *)
FieldOrderFreeAnyValue ==
    (pc = "done" /\ FieldsOnly /\ DistinctKeys(testcase.units)) =>
        /\ result.ok
        /\ result.val = Stored(testcase.units, DefaultMetadata)
        /\ result.rest = ""

(* C13 amended: the same for fields whose \par is left to paragraph() by   *)
(* the value parser, that is, no abstract field whose last command takes   *)
(* an unbraced argument that runs into the \par.                           *)
FieldOrderFree ==
    (pc = "done" /\ FieldsOnly /\ DistinctKeys(testcase.units)
                 /\ \A n \in 1..Len(testcase.units) : ClosedField(testcase.units[n])) =>
        /\ result.ok
        /\ result.val = Stored(testcase.units, DefaultMetadata)
        /\ result.rest = ""

FieldsInReverseOrder ==
    /\ pc = "done"
    /\ testcase.units = <<"year=2022\\par", "authors=given>A,family>B\\par">>
    /\ testcase.source = "year=2022\\par \nauthors=given>A,family>B\\par"
    /\ result.ok
    /\ result.rest = ""
    /\ result.val.year = Some("2022")
    /\ result.val.authors = Some(<<[given |-> "A", family |-> "B"]>>)

\* the fields of the document in source order, an unclosed last field included
FieldsInOrder ==
    IF IsField(testcase.tail) THEN Append(testcase.units, testcase.tail)
    ELSE testcase.units

RepeatsKey(units) == ~ DistinctKeys(units)

\* a document of closed fields and stray \par markers, with or without an
\* unclosed last field
ClosedFields ==
    /\ \A n \in 1..Len(testcase.units) :
           ClosedField(testcase.units[n]) \/ testcase.units[n] = "\\par"
    /\ testcase.wellformed

(* C14: when a keyword occurs several times, the record holds for it the   *)
(* value of its last occurrence, and for every other keyword the value of  *)
(* its own field, or none.                                                 *)
LastOccurrenceWins ==
    (pc = "done" /\ ClosedFields /\ RepeatsKey(FieldsInOrder)) =>
        /\ result.ok
        /\ result.val = Stored(FieldsInOrder, DefaultMetadata)

TitleTwice ==
    /\ pc = "done"
    /\ testcase.units = <<"title = T\\par", "title=U\\par">>
    /\ testcase.tail = " year=2022"
    /\ result.ok
    /\ result.val.title = Some("U")
    /\ result.val.year = Some("2022")

(* C20: the loop of metadata() terminates: an iteration that neither       *)
(* breaks nor returns an error leaves strictly less unconsumed input than  *)
(* it found (so an input of n bytes is left after n iterations at most),   *)
(* the unconsumed input is at every iteration a suffix of the original     *)
(* input, and so is the remainder returned.                                *)
LoopTerminates ==
    /\ [][pc' = "loop" => Len(input') < Len(input)]_vars
    /\ [](pc = "loop" => IsSuffix(input, testcase.source))
    /\ [](pc = "done" /\ result.ok => IsSuffix(result.rest, testcase.source))

LoopLeavesTrailingSpace ==
    /\ pc = "done"
    /\ Len(testcase.units) = 2
    /\ testcase.units[1] = "\\par"
    /\ IsField(testcase.units[2])
    /\ testcase.tail = " \n"
    /\ result.ok
    /\ result.rest = " \n"
    /\ Len(result.rest) < Len(testcase.source)

(***************************************************************************)
(* metadata.rs: Metadata::wtite_to                                         *)
(***************************************************************************)
\* escape(): every '"' of the text is written as '\"'
RECURSIVE escape(_)

escape(txt) ==
    IF Find(txt, "\"") = 0 THEN txt
    ELSE Take(txt, Find(txt, "\"") - 1) \o "\\\"" \o escape(Drop(txt, Find(txt, "\"")))

DescriptionMax == 143

DescriptionKept == 140

\* buf after `if buf.len() > 143 { buf.truncate(140); push '.' x 3 }`
truncated_at_limit(buf) ==
    IF Len(buf) >= DescriptionMax THEN Take(buf, DescriptionKept) \o "..." ELSE buf

truncated(buf) ==
    IF Len(buf) > DescriptionMax THEN Take(buf, DescriptionKept) \o "..." ELSE buf

\* lines 68-72
title_line(m) ==
    IF IsSome(m.title) THEN "title: \"" \o escape(m.title[1]) \o "\"\n" ELSE ""

\* lines 92-101
RECURSIVE author_lines(_)
author_lines(authors) ==
    IF Len(authors) = 0 THEN ""
    ELSE "\n- given: " \o authors[1].given \o "\n  family: " \o authors[1].family
         \o author_lines(Tail(authors))

authors_block(m) ==
    IF IsSome(m.authors) THEN "authors:" \o author_lines(m.authors[1]) \o "\n" ELSE ""

\* lines 103-113: the keywords split on ".", trimmed, the empty ones dropped
RECURSIVE tag_lines(_)
tag_lines(kws) ==
    IF Len(kws) = 0 THEN ""
    ELSE (IF trim(kws[1]) # "" THEN "\n- " \o trim(kws[1]) ELSE "")
         \o tag_lines(Tail(kws))

tags_block(m) ==
    IF IsSome(m.keywords) THEN "tags:" \o tag_lines(split(m.keywords[1], ".")) \o "\n"
    ELSE ""

\* lines 115-123
pages_line_either(m) ==
    IF IsSome(m.first_page) \/ IsSome(m.last_page)
    THEN "pages: [" \o (IF IsSome(m.first_page) THEN m.first_page[1] ELSE "") \o ", "
                    \o (IF IsSome(m.last_page) THEN m.last_page[1] ELSE "") \o "]\n"
    ELSE ""

pages_line(m) ==
    IF IsSome(m.first_page) /\ IsSome(m.last_page)
    THEN "pages: [" \o m.first_page[1] \o ", " \o m.last_page[1] \o "]\n"
    ELSE ""

\* lines 125-129
section_line(m) ==
    IF IsSome(m.section) THEN "section: \"" \o escape(m.section[1]) \o "\"\n" ELSE ""

\* lines 131-139
number_lines(m) ==
    IF IsSome(m.number)
    THEN "series: [n" \o escape(m.number[1]) \o "]\n"
         \o "number: " \o escape(m.number[1]) \o "\n"
    ELSE ""

\* lines 141-145
semester_line(m) ==
    IF IsSome(m.semester) THEN "semester: " \o escape(m.semester[1]) \o "\n" ELSE ""

\* lines 147-151
year_line(m) ==
    IF IsSome(m.year) THEN "year: " \o escape(trim(m.year[1])) \o "\n" ELSE ""

\* lines 161-165
keywords_line(m) ==
    IF IsSome(m.keywords) THEN "**Palavras-chave:** " \o m.keywords[1] \o "\n" ELSE ""

(***************************************************************************)
(* wtite_to, one action per stretch of its writes between the two places   *)
(* where it can return early (the two Abstract::write_to calls).           *)
(***************************************************************************)
\* lines 67-72: the opening --- line and the title
WriteOpen ==
    /\ pc = "open"
    /\ sink' = sink \o "---\n" \o title_line(metadata)
    /\ status' = "running"
    /\ pc' = "description"
    /\ UNCHANGED <<testcase, input, result, metadata, bib, date>>

\* lines 75-85: w is the plain-text rendering into buf
Describe(w) ==
    IF w.status = "ok"
    THEN /\ sink' = sink \o "description: \"" \o escape(truncated(w.out)) \o "\"\n"
         /\ pc' = "front"
         /\ UNCHANGED status
    ELSE /\ sink' = sink \o "description: \""
         /\ status' = w.status
         /\ pc' = "done"

\* lines 74-86: the description, when there is an abstract
WriteDescription_unrendered ==
    /\ pc = "description"
    /\ pc' = "front"
    /\ UNCHANGED <<sink, status, testcase, input, result, metadata, bib, date>>

WriteDescription ==
    /\ pc = "description"
    /\ IF IsSome(metadata.abstract)
       THEN Describe(write_to(metadata.abstract[1], bib, "PlainText"))
       ELSE pc' = "front" /\ UNCHANGED <<sink, status>>
    /\ UNCHANGED <<testcase, input, result, metadata, bib, date>>

\* lines 88-153: date, authors, tags, pages, section, series and number,
\* semester, year, and the closing --- line
WriteFront ==
    /\ pc = "front"
    /\ sink' = sink \o "date: " \o date \o "\n"
                    \o authors_block(metadata) \o tags_block(metadata)
                    \o pages_line(metadata) \o section_line(metadata)
                    \o number_lines(metadata) \o semester_line(metadata)
                    \o year_line(metadata) \o "---\n\n"
    /\ pc' = "body"
    /\ UNCHANGED <<testcase, input, result, metadata, bib, date, status>>

\* lines 156-158: w is the Markdown rendering, written straight to the sink
Resumo(w) ==
    IF w.status = "ok"
    THEN /\ sink' = sink \o "**Resumo:** " \o w.out \o "\n\n" \o keywords_line(metadata)
         /\ status' = "ok"
    ELSE /\ sink' = sink \o "**Resumo:** " \o w.out
         /\ status' = w.status

\* lines 155-167: the body
WriteBody ==
    /\ pc = "body"
    /\ IF IsSome(metadata.abstract)
       THEN Resumo(write_to(metadata.abstract[1], bib, "Markdown"))
       ELSE sink' = sink \o keywords_line(metadata) /\ status' = "ok"
    /\ pc' = "done"
    /\ UNCHANGED <<testcase, input, result, metadata, bib, date>>

(***************************************************************************)
(* Specification of wtite_to: records as metadata() builds them, their     *)
(* abstract parsed from a source assembled from text pieces and commands.  *)
(***************************************************************************)
Twice(s) == s \o s

RECURSIVE Repeat(_, _)
Repeat(c, n) ==
    IF n = 0 THEN ""
    ELSE Twice(Repeat(c, n \div 2)) \o (IF n % 2 = 1 THEN c ELSE "")

Fill == Repeat("a", FillLen)

AbstractPieces ==
    {Fill, "b", "\"", "\\textit{it}", "\\citeyear{K}", "\\cite{K}"}

Bibliographies ==
    {NoBib} \cup
    {BibOf("K", e) : e \in {EntrySmith, EntryBakhtin, EntryTwo, EntryFour,
                            EntryFourNoYear, EntryTitle, EntryBare}}

\* the fields other than the abstract: a record without any, and one with all
OtherFields ==
    { [authors |-> None, title |-> None, first_page |-> None, last_page |-> None,
       keywords |-> None, section |-> None, number |-> None, semester |-> None,
       year |-> None],
      [authors |-> Some(<<[given |-> "Aurora", family |-> "Leao"]>>),
       title |-> Some("Euclides \"da\" Cunha"),
       first_page |-> Some("15"), last_page |-> Some("29"),
       keywords |-> Some("Sertao. Narrativa."), section |-> Some("Dossie"),
       number |-> Some("5"), semester |-> Some("1"), year |-> Some("2022 ")] }

Record(o, a) ==
    [authors |-> o.authors, title |-> o.title, first_page |-> o.first_page,
     last_page |-> o.last_page, abstract |-> a, keywords |-> o.keywords,
     section |-> o.section, number |-> o.number, semester |-> o.semester,
     year |-> o.year]

InitRender ==
    /\ pc = "open"
    /\ testcase \in Concats(AbstractPieces, MaxPieces)
    /\ \E o \in OtherFields :
         metadata = Record(o, IF testcase = "" THEN None
                              ELSE Some(abstract(testcase).val))
    /\ bib \in Bibliographies
    /\ date = "2022-05-01T12:00:00+00:00"
    /\ input = ""
    /\ result = NoResult
    /\ sink = ""
    /\ status = "none"

NextRender == WriteOpen \/ WriteDescription \/ WriteFront \/ WriteBody

SpecRender == InitRender /\ [][NextRender]_vars

\* the parts of the record's abstract (none without an abstract)
PartsOf(m) == IF IsSome(m.abstract) THEN m.abstract[1] ELSE <<>>

Cites(m, kinds, k) ==
    \E n \in 1..Len(PartsOf(m)) :
        PartsOf(m)[n].kind \in kinds /\ PartsOf(m)[n].arg = k

(* C1: when the abstract cites a key the bibliography lacks, the render    *)
(* returns the unresolved-citation error and the sink holds no byte.       *)
MissingKeyWritesNothing ==
    (pc = "done" /\ Cites(metadata, {"Cite", "Citeyear"}, "K") /\ ~ HasKey(bib, "K"))
        => (status = "error" /\ sink = "")

(* C2: with an entry whose author tag holds one author, \cite{K} completes *)
(* normally and writes (SURNAME, YEAR): (SMITH, 1999), (BAKHTIN, 2003).    *)
SingleAuthorCite ==
    (pc = "done" /\ Cites(metadata, {"Cite"}, "K")) =>
        /\ bib = BibOf("K", EntrySmith) =>
              (status = "ok" /\ Contains(sink, "(SMITH, 1999)"))
        /\ bib = BibOf("K", EntryBakhtin) =>
              (status = "ok" /\ Contains(sink, "(BAKHTIN, 2003)"))

HasTag(b, k, tagname) == HasKey(b, k) /\ find_tag(b[k], tagname) # <<>>

ShortAbstract == testcase # "" /\ Len(testcase) < FillLen

(* C3: with an entry that has no year tag, citeyear writes exactly (s.d.)  *)
(* and cite writes s.d. as its year, in the plain-text description and in  *)
(* the Markdown body; the render does not fail.                            *)
MissingYearFallback ==
    (pc = "done" /\ ShortAbstract /\ HasKey(bib, "K") /\ ~ HasTag(bib, "K", "year")) =>
        /\ status = "ok"
        /\ ~ Contains(sink, "_s.d._")
        /\ Cites(metadata, {"Citeyear"}, "K") => Contains(sink, "(s.d.)")
        /\ Cites(metadata, {"Cite"}, "K") => Contains(sink, ", s.d.)")

FrontMatter == Take(sink, Find(sink, "---\n\n") - 1)

Body == Drop(sink, Find(sink, "---\n\n") + 4)

(* C4: with an author tag of more than 3 names, cite writes the first      *)
(* surname and ", et al.", upper-cased, with the underscores of the italic *)
(* markup in the Markdown body only, never in the plain-text description.  *)
EtAlMarkupOnlyInMarkdown ==
    (pc = "done" /\ ShortAbstract /\ Cites(metadata, {"Cite"}, "K")
                 /\ bib \in {BibOf("K", EntryFour), BibOf("K", EntryFourNoYear)}) =>
        /\ status = "ok"
        /\ Contains(Body, "(SILVA, _ET AL._, ")
        /\ Contains(FrontMatter, "(SILVA, ET AL., ")
        /\ ~ Contains(FrontMatter, "_ET AL._")

\* the description value between `description: "` and its closing `"\n`,
\* in the state that follows WriteDescription
DescriptionPrefix == "---\n" \o title_line(metadata) \o "description: \""

DescriptionValue == SubSeq(sink, Len(DescriptionPrefix) + 1, Len(sink) - 2)

PlainRendering == write_to(PartsOf(metadata), bib, "PlainText").out

Described ==
    /\ pc = "front"
    /\ IsSome(metadata.abstract)
    /\ Take(sink, Len(DescriptionPrefix)) = DescriptionPrefix

RECURSIVE Quotes(_)
Quotes(s) ==
    IF Find(s, "\"") = 0 THEN 0 ELSE 1 + Quotes(Drop(s, Find(s, "\"")))

\* s with every \" read back as "
RECURSIVE Unescaped(_)
Unescaped(s) ==
    IF Find(s, "\\\"") = 0 THEN s
    ELSE Take(s, Find(s, "\\\"") - 1) \o "\"" \o Unescaped(Drop(s, Find(s, "\\\"") + 1))

Cut(r) == IF Len(r) > 143 THEN SubSeq(r, 1, 140) \o "..." ELSE r

(* C5 as stated: the emitted description value is exactly 143 bytes (the   *)
(* first 140 of the rendering and "...") when the plain-text rendering is  *)
(* longer than 143 bytes, and the rendering untouched otherwise, also when *)
(* the rendering holds '"' bytes.                                          *)
DescriptionIsCutRendering ==
    Described =>
        IF Len(PlainRendering) > 143
        THEN /\ Len(DescriptionValue) = 143
             /\ DescriptionValue = SubSeq(PlainRendering, 1, 140) \o "..."
        ELSE DescriptionValue = PlainRendering

(* C5 amended: the emitted description value is the cut rendering (the     *)
(* first 140 bytes and "..." when the rendering is longer than 143 bytes,  *)
(* the rendering itself otherwise) with every '"' written as '\"': it is   *)
(* one byte longer than the cut rendering for each '"' the latter holds.   *)
DescriptionIsEscapedCutRendering ==
    Described =>
        /\ Unescaped(DescriptionValue) = Cut(PlainRendering)
        /\ Len(DescriptionValue) = Len(Cut(PlainRendering)) + Quotes(Cut(PlainRendering))

DescriptionCutWithQuote ==
    /\ Described
    /\ Len(PlainRendering) > 143
    /\ Quotes(SubSeq(PlainRendering, 1, 140)) = 1
    /\ Len(DescriptionValue) = 144

(* C18: the unresolved-citation error is raised only while the abstract is *)
(* rendered for the description line: a render that fails has written the  *)
(* front matter up to the opening of the description value and no more,    *)
(* and a render that has written the closing --- line does not fail.       *)
ErrorOnlyInDescription ==
    /\ status = "error" => (pc = "done" /\ sink = DescriptionPrefix)
    /\ pc \in {"front", "body"} => status = "running"
    /\ (pc = "done" /\ Contains(sink, "\n---\n\n")) => status = "ok"

ResumoAfterDescription ==
    /\ pc = "done"
    /\ status = "ok"
    /\ Cites(metadata, {"Cite"}, "K") /\ Cites(metadata, {"Citeyear"}, "K")
    /\ Contains(FrontMatter, "description: \"")
    /\ Contains(Body, "**Resumo:** ")

(***************************************************************************)
(* Specification of wtite_to on records with any of the fields present or  *)
(* absent, each independently of the others.                               *)
(***************************************************************************)
FrontRecords ==
    [authors : {None, Some(<<[given |-> "Aurora", family |-> "Leao"]>>)},
     title : {None, Some("Euclides \"da\" Cunha")},
     first_page : {None, Some("15")},
     last_page : {None, Some("29")},
     abstract : {None, Some(abstract("b \\cite{K}").val)},
     keywords : {None, Some("Sertao. Narrativa.")},
     section : {None, Some("Dossie")},
     number : {None, Some("5")},
     semester : {None, Some("1")},
     year : {None, Some("2022 ")}]

InitFront ==
    /\ pc = "open"
    /\ metadata \in FrontRecords
    /\ bib \in {NoBib, BibOf("K", EntryTwo)}
    /\ date = "2022-05-01T12:00:00+00:00"
    /\ testcase = <<>>
    /\ input = ""
    /\ result = NoResult
    /\ sink = ""
    /\ status = "none"

SpecFront == InitFront /\ [][NextRender]_vars

\* the keys of the front matter in the order of the claim
FrontKeys == <<"title", "description", "date", "authors", "tags", "pages",
               "section", "series", "number", "semester", "year">>

\* the field a key of the front matter is written for is present
Present(m, k) ==
    CASE k = "title"       -> IsSome(m.title)
      [] k = "description" -> IsSome(m.abstract)
      [] k = "date"        -> TRUE
      [] k = "authors"     -> IsSome(m.authors)
      [] k = "tags"        -> IsSome(m.keywords)
      [] k = "pages"       -> IsSome(m.first_page) /\ IsSome(m.last_page)
      [] k = "section"     -> IsSome(m.section)
      [] k = "series"      -> IsSome(m.number)
      [] k = "number"      -> IsSome(m.number)
      [] k = "semester"    -> IsSome(m.semester)
      [] k = "year"        -> IsSome(m.year)

\* where the line of key k starts in the front matter, 0 when it has none
KeyAt(front, k) == Find(front, "\n" \o k \o ":")

\* the keys are written for the present fields only, in the order of FrontKeys
KeysInOrder(m, at) ==
    /\ \A j \in 1..Len(FrontKeys) : (at[j] > 0) <=> Present(m, FrontKeys[j])
    /\ \A j, k \in 1..Len(FrontKeys) :
           (j < k /\ at[j] > 0 /\ at[k] > 0) => at[j] < at[k]

(* C15: a successful wtite_to writes the front-matter keys between two --- *)
(* lines in the order title, description, date, authors, tags, pages,      *)
(* section, series, number, semester, year, and a key is written if and    *)
(* only if its field is present: pages only with both first_page and       *)
(* last_page, series and number only with number.                          *)
FrontMatterKeys ==
    (pc = "done" /\ status = "ok") =>
        /\ StartsWith(sink, "---\n")
        /\ Contains(sink, "\n---\n\n")
        /\ \E front \in {FrontMatter} :
             \E at \in {[j \in 1..Len(FrontKeys) |-> KeyAt(front, FrontKeys[j])]} :
                KeysInOrder(metadata, at)

FirstPageWithoutLast ==
    /\ pc = "done"
    /\ status = "ok"
    /\ IsSome(metadata.first_page) /\ ~ IsSome(metadata.last_page)
    /\ IsSome(metadata.number) /\ ~ IsSome(metadata.title)
    /\ ~ Contains(sink, "pages:")
    /\ Contains(sink, "\ndate: ")
    /\ Contains(sink, "\nseries: [n5]\nnumber: 5\n")

====
